---- MODULE Spec2Model ----
(***************************************************************************)
(* A model of agriclip_service/main.py: the lazily loaded detector and     *)
(* classifier (load_models), and the /classify pipeline that turns their   *)
(* outputs into a report (region extraction, best-region selection, domain *)
(* estimation, affected area, severity, disease decision, narrative and    *)
(* recommendations).                                                       *)
(*                                                                         *)
(* Conventions.  A Python str is a sequence of one-character strings, so   *)
(* that lower() and the substring test `tok in s` are computed.  A float   *)
(* pixel coordinate is an integer number of half pixels; a confidence is   *)
(* an integer number of thousandths.  None is the string "None".           *)
(***************************************************************************)
EXTENDS Integers, Sequences, FiniteSets, TLC

None == "None"

\* ------------------------------------------------------------------ str

\* One character of str.lower().
LowerChar(c) ==
    CASE c = "A" -> "a" [] c = "B" -> "b" [] c = "C" -> "c" [] c = "D" -> "d"
      [] c = "E" -> "e" [] c = "F" -> "f" [] c = "G" -> "g" [] c = "H" -> "h"
      [] c = "I" -> "i" [] c = "J" -> "j" [] c = "K" -> "k" [] c = "L" -> "l"
      [] c = "M" -> "m" [] c = "N" -> "n" [] c = "O" -> "o" [] c = "P" -> "p"
      [] c = "Q" -> "q" [] c = "R" -> "r" [] c = "S" -> "s" [] c = "T" -> "t"
      [] c = "U" -> "u" [] c = "V" -> "v" [] c = "W" -> "w" [] c = "X" -> "x"
      [] c = "Y" -> "y" [] c = "Z" -> "z" [] OTHER -> c

\* s.lower()
Lower(s) == [i \in 1..Len(s) |-> LowerChar(s[i])]

\* tok in s, for two str.
Contains(s, tok) ==
    \E i \in 0..(Len(s) - Len(tok)) : SubSeq(s, i + 1, i + Len(tok)) = tok

\* any(tok in s for tok in toks)
AnyTokIn(toks, s) == \E tok \in toks : Contains(s, tok)

\* One decimal digit of str(n).
Digit(d) ==
    CASE d = 0 -> "0" [] d = 1 -> "1" [] d = 2 -> "2" [] d = 3 -> "3"
      [] d = 4 -> "4" [] d = 5 -> "5" [] d = 6 -> "6" [] d = 7 -> "7"
      [] d = 8 -> "8" [] OTHER -> "9"

\* str(n) for an int n >= 0.
RECURSIVE StrOfInt(_)
StrOfInt(n) == IF n < 10 THEN <<Digit(n)>> ELSE Append(StrOfInt(n \div 10), Digit(n % 10))

\* ------------------------------------------------------------- numbers

\* int(x) of a float given in half units: truncation toward zero.
IntOfHalves(h) == IF h >= 0 THEN h \div 2 ELSE -((-h) \div 2)

\* int(round(n / d)) for n >= 0, d > 0: Python 3 rounds halves to even.
RoundDiv(n, d) ==
    LET q == n \div d
        r == n % d
    IN  IF 2 * r < d THEN q
        ELSE IF 2 * r > d THEN q + 1
        ELSE IF q % 2 = 0 THEN q ELSE q + 1

Max(a, b) == IF a >= b THEN a ELSE b
Min(a, b) == IF a <= b THEN a ELSE b

\* int(round(conf * 100)) of a confidence in thousandths.
Pct(conf) == RoundDiv(conf, 10)

\* ------------------------------------------------------ estimate_domain

animal_tokens == {<<"c","o","w">>, <<"s","h","e","e","p">>, <<"h","o","r","s","e">>, <<"d","o","g">>, <<"c","a","t">>, <<"b","i","r","d">>, <<"z","e","b","r","a">>, <<"g","i","r","a","f","f","e">>, <<"b","e","a","r">>}
plant_tokens == {<<"p","o","t","t","e","d"," ","p","l","a","n","t">>, <<"p","l","a","n","t">>}
cls_fish_tokens == {<<"s","h","a","r","k">>, <<"r","a","y">>, <<"t","e","n","c","h">>, <<"g","o","l","d","f","i","s","h">>, <<"s","a","l","m","o","n">>, <<"t","r","o","u","t">>, <<"t","i","l","a","p","i","a">>, <<"c","o","d">>, <<"m","a","c","k","e","r","e","l">>}
cls_plant_tokens == {<<"l","e","a","f">>, <<"p","l","a","n","t">>, <<"t","o","m","a","t","o">>, <<"p","o","t","a","t","o">>, <<"m","a","i","z","e">>, <<"c","o","r","n">>, <<"w","h","e","a","t">>, <<"r","i","c","e">>}
cls_livestock_tokens == {<<"c","o","w">>, <<"s","h","e","e","p">>, <<"h","o","r","s","e">>, <<"c","a","t">>, <<"d","o","g">>, <<"t","i","g","e","r">>, <<"l","i","o","n">>}

\* estimate_domain with the classifier label consulted before the detections.
estimate_domain_ClassifierFirst(dets, cls_label) ==
    LET labels == {Lower(dets[i].label) : i \in 1..Len(dets)}
        lower == Lower(cls_label)
    IN  IF AnyTokIn(cls_fish_tokens, lower) THEN "fish"
        ELSE IF AnyTokIn(cls_plant_tokens, lower) THEN "plant"
        ELSE IF labels \cap animal_tokens # {} THEN "livestock"
        ELSE IF labels \cap plant_tokens # {} THEN "plant"
        ELSE IF AnyTokIn(cls_livestock_tokens, lower) THEN "livestock"
        ELSE "plant"

estimate_domain(dets, cls_label) ==
    LET labels == {Lower(dets[i].label) : i \in 1..Len(dets)}
        lower == Lower(cls_label)
    IN  IF labels \cap animal_tokens # {} THEN "livestock"
        ELSE IF labels \cap plant_tokens # {} THEN "plant"
        ELSE IF AnyTokIn(cls_fish_tokens, lower) THEN "fish"
        ELSE IF AnyTokIn(cls_plant_tokens, lower) THEN "plant"
        ELSE IF AnyTokIn(cls_livestock_tokens, lower) THEN "livestock"
        ELSE "plant"

\* ------------------------------------------------------- make_narrative

narrative_disease_tokens == {<<"b","l","i","g","h","t">>, <<"m","i","l","d","e","w">>, <<"r","u","s","t">>, <<"f","u","n","g","u","s">>, <<"s","p","o","t">>}

\* The f-string is kept as its template and the two values put into it.
make_narrative(dom, cls_label, cls_conf, dets) ==
    LET pct == Pct(cls_conf)
        t == IF dom = "plant"
             THEN IF AnyTokIn(narrative_disease_tokens, Lower(cls_label))
                  THEN "This plant shows signs of {label}"
                  ELSE "This appears to be a healthy plant or foliage ({label})"
             ELSE IF dom = "livestock" THEN "This looks like {label}"
             ELSE IF dom = "fish" THEN "This appears to be a {label}"
             ELSE "Detected subject classified as {label} with {pct}% confidence."
    IN  [template |-> t, label |-> cls_label, pct |-> pct]

\* ------------------------------------------------------------- bounds

\* Largest image width and height, in pixels.
MaxDim == 2
\* Largest number of boxes the detector returns for one image.
MaxDets == 3
\* Number of concurrent requests.
NThreads == 2
\* Largest number of regions one concurrent classify request classifies.
MaxCrops == 1

\* --------------------------------------------------------------- state

VARIABLES
    \* process-wide lazily loaded models (lines 31-35)
    _detector,           \* reference to a detector object, or Null
    _effnet,             \* reference to a classifier object, or Null
    _effnet_transform,   \* None, "weights" or "compose"
    _effnet_labels,      \* None, "categories" or "empty"
    detObjs,             \* attributes of each detector object constructed
    effObjs,             \* attributes of each classifier object constructed
    \* one /classify request (lines 168-303)
    inputs,              \* what the request's environment can produce
    pc,                  \* position of the request in classify
    imageDomain,         \* the form field
    width, height,       \* pil_img.size
    detections,
    regions,
    boxes_for_regions,
    classified_regions,
    best_idx,
    best_conf,
    primary_label,
    domain,
    response,
    calls,               \* the collaborator calls made, in order
    \* concurrent requests (the thread pool running health and classify)
    tpc,                 \* position of each request thread
    ret,                 \* who called load_models in each thread
    crops,               \* classify_crop calls made by each thread
    loads                \* models constructed and assigned: [det, eff]

gvars == <<_detector, _effnet, _effnet_transform, _effnet_labels, detObjs, effObjs>>
rvars == <<inputs, pc, imageDomain, width, height, detections, regions, boxes_for_regions,
           classified_regions, best_idx, best_conf, primary_label, domain, response, calls>>
tvars == <<tpc, ret, crops, loads>>
vars == <<gvars, rvars, tvars>>

Threads == 1..NThreads
\* The None reference; objects are numbered from 1, by the thread that made them.
Null == 0
\* Optional[int]: None is the empty sequence, n is <<n>>.
NoInt == <<>>

\* A model as its constructor leaves it: no labels attribute, training mode.
NewObj == [labels |-> "unset", training |-> TRUE]
NoObj == [labels |-> "unset", training |-> FALSE]

\* --------------------------------------------------- the label tables

\* weights.meta["categories"] of the detector: detector class index -> name
\* (a Python list, indexed from 0).  Representative names.
DetCategories ==
    << <<"_","_","b","a","c","k","g","r","o","u","n","d","_","_">>, <<"p","e","r","s","o","n">>, <<"c","o","w">>, <<"S","h","e","e","p">>, <<"p","o","t","t","e","d"," ","p","l","a","n","t">>, <<"p","l","a","n","t">>,
       <<"c","o","w","b","o","y"," ","h","a","t">>, <<"P","o","t","t","e","d"," ","P","l","a","n","t">> >>

\* weights.meta["categories"] of the classifier.  Representative names.
ClsCategories ==
    << <<"t","e","n","c","h">>, <<"t","i","g","e","r"," ","s","h","a","r","k">>, <<"t","a","b","b","y"," ","c","a","t">>, <<"E","a","r","l","y"," ","B","l","i","g","h","t">>, <<"l","e","a","f"," ","m","o","l","d">>, <<"d","a","i","s","y">>,
       <<"T","o","m","a","t","o"," ","L","e","a","f"," ","S","p","o","t">>, <<"c","a","t","f","i","s","h">>, <<"c","r","a","y","f","i","s","h">>, <<"a","c","o","r","n">>, <<"p","o","w","d","e","r","y"," ","m","i","l","d","e","w">>,
       <<"S","e","a"," ","L","i","o","n">>, <<"m","o","l","d","y"," ","b","r","e","a","d">>, <<"o","x">> >>

\* The list a labels state stands for.
LabelList(state, categories) == IF state = "categories" THEN categories ELSE <<>>

\* labels[idx] if labels is there and idx < len(labels) else str(idx)   (lines 91, 110)
LabelOf(state, categories, idx) ==
    LET labels == LabelList(state, categories)
    IN  IF state \notin {"unset", None} /\ idx < Len(labels) THEN labels[idx + 1] ELSE StrOfInt(idx)

\* The cap on the detections kept from one detector output (line 87).
MaxDetections == 50

\* ----------------------------------------------------------- load_models

\* load_models run to its end by thread `me` with no other thread running:
\* each model is constructed only if its global is None; detOk / effOk say
\* whether the pretrained weights could be had (else the except branch runs).
LoadModels(me, detOk, effOk) ==
    /\ _detector' = IF _detector = Null THEN me ELSE _detector
    /\ detObjs' = IF _detector = Null
                  THEN [detObjs EXCEPT ![me] = [labels |-> IF detOk THEN "categories" ELSE "empty",
                                                training |-> FALSE]]
                  ELSE detObjs
    /\ _effnet' = IF _effnet = Null THEN me ELSE _effnet
    /\ effObjs' = IF _effnet = Null THEN [effObjs EXCEPT ![me] = [training |-> FALSE]] ELSE effObjs
    /\ _effnet_transform' = IF _effnet = Null THEN (IF effOk THEN "weights" ELSE "compose")
                            ELSE _effnet_transform
    /\ _effnet_labels' = IF _effnet = Null THEN (IF effOk THEN "categories" ELSE "empty")
                         ELSE _effnet_labels

\* ------------------------------------------------- the request's inputs

SeqsUpTo(S, n) == UNION {[1..k -> S] : k \in 0..n}

\* Detector boxes (x1, y1, x2, y2) in half pixels.
BoxInside == <<1, 0, 3, 4>>
BoxNegative == <<-3, -1, 2, 2>>
BoxOverflow == <<0, 0, 2 * MaxDim + 3, 2 * MaxDim + 2>>
BoxRightOfImage == <<2 * MaxDim + 2, 0, 2 * MaxDim + 4, 2>>
BoxLeftOfImage == <<-6, 0, -3, 2>>
BoxAboveImage == <<0, -6, 2, -3>>
Boxes == {BoxInside, BoxNegative, BoxOverflow, BoxRightOfImage, BoxLeftOfImage, BoxAboveImage}

\* Image sizes (width, height); the report allows for an image of no area
\* (line 230).
Sizes == (0..MaxDim) \X (0..MaxDim)
PositiveSizes == (1..MaxDim) \X (1..MaxDim)

RawDets(boxes, idxs) == [box : boxes, score : {950}, cls_idx : idxs]
Probs(idxs, confs) == [idx : idxs, conf : confs]

\* Families of inputs of one request, each wide in what one part of classify
\* reads and narrow in the rest:
\*   sizes        the sizes the decoded image can have
\*   outputs      the detector's raw outputs (box, score, class index),
\*   maxOut       and how many of them it returns at most
\*   probs        the classifier's top class index and its confidence
\*   overrides    the imageDomain form field
\*   weights      whether the pretrained weights of the detector and of the
\*                classifier can be had when load_models runs
\*   crop_raises  whether this build's Image.crop raises ValueError for a
\*                box whose right < left or lower < upper (newer Pillow) or
\*                returns an empty image (older Pillow)
\* InLabels pairs every two detector labels with every classifier label;
\* InSizes has the images of no area.
InRegions(raises) ==
    [name |-> "regions", sizes |-> PositiveSizes, outputs |-> RawDets(Boxes, {1}), maxOut |-> MaxDets,
     probs |-> Probs({5}, {700}), overrides |-> {None},
     weights |-> {<<TRUE, TRUE>>}, crop_raises |-> raises]
InConfidences ==
    [name |-> "confidences", sizes |-> {<<MaxDim, MaxDim>>}, outputs |-> RawDets({BoxInside}, {1}),
     maxOut |-> MaxDets, probs |-> Probs({3, 5}, {0, 300, 599, 600, 800, 900, 1000}), overrides |-> {None},
     weights |-> {<<TRUE, TRUE>>}, crop_raises |-> FALSE]
InLabels ==
    [name |-> "labels", sizes |-> {<<MaxDim, MaxDim>>},
     outputs |-> RawDets({BoxInside}, 0..(Len(DetCategories) - 1)), maxOut |-> 2,
     probs |-> Probs(0..(Len(ClsCategories) - 1), {725}), overrides |-> {None},
     weights |-> BOOLEAN \X BOOLEAN, crop_raises |-> FALSE]
InOverrides ==
    [name |-> "overrides", sizes |-> {<<MaxDim, MaxDim>>}, outputs |-> RawDets({BoxInside}, {2, 4}), maxOut |-> 1,
     probs |-> Probs({1, 3, 5}, {725}),
     overrides |-> {None, "", "plant", "livestock", "fish", "poultry", "Plant"},
     weights |-> {<<TRUE, TRUE>>}, crop_raises |-> FALSE]
InSizes ==
    [name |-> "sizes", sizes |-> Sizes, outputs |-> RawDets({BoxInside, BoxOverflow}, {1}), maxOut |-> 1,
     probs |-> Probs({3, 5}, {700}), overrides |-> {None, "livestock"},
     weights |-> {<<TRUE, TRUE>>}, crop_raises |-> FALSE]
Inputs == {InRegions(TRUE), InRegions(FALSE), InConfidences, InLabels, InOverrides, InSizes}

\* --------------------------------------------------------------- classify

\* The except branch's JSONResponse (lines 298-303).
Failure(e) ==
    [status_code |-> 500, success |-> FALSE, message |-> "Error during classification", detail |-> e]

\* pil_image_from_upload(file); width, height = pil_img.size   (lines 180-181)
Decode ==
    /\ pc = "decode"
    /\ \/ /\ response' = Failure("cannot identify image file")
          /\ pc' = "done"
          /\ UNCHANGED <<width, height>>
       \/ /\ \E size \in inputs.sizes : width' = size[1] /\ height' = size[2]
          /\ pc' = "detect"
          /\ UNCHANGED response
    /\ UNCHANGED <<gvars, tvars, inputs, imageDomain, detections, regions, boxes_for_regions,
                   classified_regions, best_idx, best_conf, primary_label, domain, calls>>

\* detections = detect_objects(pil_img)   (lines 184, 73-97)
DetectObjects ==
    /\ pc = "detect"
    /\ \E w \in inputs.weights : LoadModels(1, w[1], w[2])
    /\ calls' = Append(calls, [fn |-> "detect_objects", arg |-> 0])
    /\ \/ /\ response' = Failure("detector error")
          /\ pc' = "done"
          /\ UNCHANGED detections
       \/ /\ \E out \in SeqsUpTo(inputs.outputs, inputs.maxOut) :
                detections' =
                    [i \in 1..Min(Len(out), MaxDetections) |->
                        [label |-> LabelOf(detObjs'[_detector'].labels, DetCategories, out[i].cls_idx),
                         confidence |-> out[i].score,
                         box |-> out[i].box]]
          /\ pc' = "regions"
          /\ UNCHANGED response
    /\ UNCHANGED <<tvars, inputs, imageDomain, width, height, regions, boxes_for_regions,
                   classified_regions, best_idx, best_conf, primary_label, domain>>

\* x1 = max(0, int(x1)); y1 = max(0, int(y1)); x2 = min(width, int(x2)); y2 = min(height, int(y2))
ClampBox(box, w, h) ==
    << Max(0, IntOfHalves(box[1])), Max(0, IntOfHalves(box[2])),
       Min(w, IntOfHalves(box[3])), Min(h, IntOfHalves(box[4])) >>

\* The size of pil_img.crop(b) when it returns.
CropSize(b) == << Max(0, b[3] - b[1]), Max(0, b[4] - b[2]) >>

\* Line 199 with width and height exchanged.
FallbackBox_Transposed(w, h) == <<0, 0, h, w>>

\* boxes_for_regions = [[0, 0, width, height]]   (line 199)
FallbackBox(w, h) == <<0, 0, w, h>>

\* One pass of the region loop, or the whole-image fallback   (lines 186-199)
ExtractRegions ==
    /\ pc = "regions"
    /\ IF detections = <<>>
       THEN /\ regions' = << <<width, height>> >>
            /\ boxes_for_regions' = << FallbackBox(width, height) >>
            /\ pc' = "classify"
            /\ UNCHANGED response
       ELSE LET det == detections[Len(boxes_for_regions) + 1]
                b == ClampBox(det.box, width, height)
            IN  IF inputs.crop_raises /\ (b[3] < b[1] \/ b[4] < b[2])
                THEN /\ response' = Failure("Coordinate 'right' is less than 'left'")
                     /\ pc' = "done"
                     /\ UNCHANGED <<regions, boxes_for_regions>>
                ELSE /\ regions' = Append(regions, CropSize(b))
                     /\ boxes_for_regions' = Append(boxes_for_regions, b)
                     /\ pc' = IF Len(boxes_for_regions') = Len(detections) THEN "classify" ELSE "regions"
                     /\ UNCHANGED response
    /\ UNCHANGED <<gvars, tvars, inputs, imageDomain, width, height, detections,
                   classified_regions, best_idx, best_conf, primary_label, domain, calls>>

\* Line 214 with >= for >: the last maximum wins.
IsBetter_OrEqual(conf, best) == conf >= best

\* if cls["confidence"] > best_conf   (line 214)
IsBetter(conf, best) == conf > best

\* One pass of the classification loop   (lines 201-216, 100-120).  top3 is
\* carried into the entry unread and is left out.
ClassifyRegion ==
    /\ pc = "classify"
    /\ LoadModels(1, TRUE, TRUE)
    /\ LET i == Len(classified_regions)
       IN  /\ calls' = Append(calls, [fn |-> "classify_crop", arg |-> i])
           /\ \/ /\ response' = Failure("classifier error")
                 /\ pc' = "done"
                 /\ UNCHANGED <<classified_regions, best_idx, best_conf>>
              \/ /\ \E p \in inputs.probs :
                       LET cls == [label |-> LabelOf(_effnet_labels', ClsCategories, p.idx),
                                   confidence |-> p.conf]
                       IN  /\ classified_regions' =
                                 Append(classified_regions,
                                        [label |-> cls.label, confidence |-> cls.confidence,
                                         box |-> boxes_for_regions[i + 1]])
                           /\ IF IsBetter(cls.confidence, best_conf)
                              THEN best_conf' = cls.confidence /\ best_idx' = i
                              ELSE UNCHANGED <<best_conf, best_idx>>
                 /\ pc' = IF i + 1 = Len(regions) THEN "report" ELSE "classify"
                 /\ UNCHANGED response
    /\ UNCHANGED <<tvars, inputs, imageDomain, width, height, detections, regions,
                   boxes_for_regions, primary_label, domain>>

\* domain = imageDomain or estimate_domain(detections, primary_label)   (line 220)
ResolveDomain(image_domain, dets, label) ==
    IF image_domain \notin {None, ""} THEN image_domain ELSE estimate_domain(dets, label)

RECURSIVE RegionArea(_)
\* region_area += max(0, (x2 - x1)) * max(0, (y2 - y1)) over the boxes   (lines 226-229)
RegionArea(boxes) ==
    IF boxes = <<>> THEN 0
    ELSE Max(0, boxes[1][3] - boxes[1][1]) * Max(0, boxes[1][4] - boxes[1][2]) + RegionArea(Tail(boxes))

\* Lines 223-231 without the test of the domain.
AffectedAreaPct_AnyDomain(dom, boxes, w, h) ==
    IF w * h > 0 THEN <<RoundDiv(100 * RegionArea(boxes), w * h)>> ELSE NoInt

\* affected_area_pct   (lines 223-231)
AffectedAreaPct(dom, boxes, w, h) ==
    IF dom = "plant" /\ w * h > 0 THEN <<RoundDiv(100 * RegionArea(boxes), w * h)>> ELSE NoInt

\* severity   (lines 234-241)
Severity(dom, conf) ==
    IF dom = "plant"
    THEN IF conf >= 800 THEN "high" ELSE IF conf >= 600 THEN "medium" ELSE "low"
    ELSE None

disease_tokens == {<<"b","l","i","g","h","t">>, <<"m","i","l","d","e","w">>, <<"r","u","s","t">>, <<"f","u","n","g","u","s">>, <<"s","p","o","t">>, <<"m","o","l","d">>}

\* disease_detected   (line 246)
DiseaseDetected(dom, label) == IF dom = "plant" THEN AnyTokIn(disease_tokens, Lower(label)) ELSE FALSE

\* disease_name   (line 247)
DiseaseName(dom, label, detected) ==
    IF detected THEN label ELSE IF dom # "plant" THEN label ELSE <<"H","e","a","l","t","h","y">>

\* Lines 253-275 without the fish branch.
Recommendations_NoFish(dom, detected) ==
    IF dom = "plant"
    THEN IF detected
         THEN << "Isolate affected leaves to reduce spread.",
                 "Apply appropriate fungicide as per local guidance.",
                 "Ensure proper airflow and avoid overhead watering." >>
         ELSE << "Maintain regular watering and balanced fertilization.",
                 "Monitor for any spots or discoloration." >>
    ELSE IF dom = "livestock"
    THEN << "Provide clean water and balanced feed.",
            "Monitor for signs of distress or illness." >>
    ELSE << >>

\* recommendations   (lines 253-275)
Recommendations(dom, detected) ==
    IF dom = "plant"
    THEN IF detected
         THEN << "Isolate affected leaves to reduce spread.",
                 "Apply appropriate fungicide as per local guidance.",
                 "Ensure proper airflow and avoid overhead watering." >>
         ELSE << "Maintain regular watering and balanced fertilization.",
                 "Monitor for any spots or discoloration." >>
    ELSE IF dom = "livestock"
    THEN << "Provide clean water and balanced feed.",
            "Monitor for signs of distress or illness." >>
    ELSE IF dom = "fish"
    THEN << "Maintain optimal water quality and temperature.",
            "Monitor for abnormal swimming or spots." >>
    ELSE << >>

\* int(round((time.time() - start) * 1000)): one representative value.
ProcessingTimes == {12}

\* The decisions and the success response   (lines 218-297)
Report ==
    /\ pc = "report"
    /\ primary_label' = classified_regions[best_idx + 1].label
    /\ domain' = ResolveDomain(imageDomain, detections, primary_label')
    /\ LET disease_detected == DiseaseDetected(domain', primary_label')
       IN  \E ms \in ProcessingTimes :
             response' =
               [status_code |-> 200, success |-> TRUE, message |-> "Classification completed",
                data |->
                  [classification |->
                     [diseaseDetected |-> disease_detected,
                      diseaseName |-> DiseaseName(domain', primary_label', disease_detected),
                      confidence |-> Pct(best_conf),
                      severity |-> Severity(domain', best_conf),
                      affectedArea |-> AffectedAreaPct(domain', boxes_for_regions, width, height),
                      recommendations |-> Recommendations(domain', disease_detected),
                      processingTime |-> ms,
                      model |-> "agriclip-yolov8-efficientnet-b3"],
                   report |-> make_narrative(domain', primary_label', best_conf, detections),
                   detections |-> detections,
                   regions |-> classified_regions]]
    /\ pc' = "done"
    /\ UNCHANGED <<gvars, tvars, inputs, imageDomain, width, height, detections, regions,
                   boxes_for_regions, classified_regions, best_idx, best_conf, calls>>

\* No model loaded (lines 32-35).
InitModels ==
    /\ _detector = Null /\ _effnet = Null /\ _effnet_transform = None /\ _effnet_labels = None
    /\ detObjs = [t \in Threads |-> NoObj]
    /\ effObjs = [t \in Threads |-> [training |-> FALSE]]

InitThreads ==
    /\ tpc = [t \in Threads |-> "idle"]
    /\ ret = [t \in Threads |-> None]
    /\ crops = [t \in Threads |-> 0]
    /\ loads = [det |-> 0, eff |-> 0]

\* The locals of classify before its first line runs.
InitRequest(at) ==
    /\ pc = at
    /\ width = 0 /\ height = 0
    /\ detections = <<>> /\ regions = <<>> /\ boxes_for_regions = <<>> /\ classified_regions = <<>>
    /\ best_idx = 0 /\ best_conf = -1000
    /\ primary_label = <<>> /\ domain = None
    /\ response = [status_code |-> 0]
    /\ calls = <<>>

\* One /classify request in a fresh process.
Init ==
    /\ InitModels /\ InitThreads
    /\ inputs \in Inputs
    /\ imageDomain \in inputs.overrides
    /\ InitRequest("decode")

Next == Decode \/ DetectObjects \/ ExtractRegions \/ ClassifyRegion \/ Report

Spec == Init /\ [][Next]_vars

\* ------------------------------------------- load_models, thread by thread

\* health and classify are plain `def` endpoints, which the server runs on
\* its thread pool: requests run load_models concurrently, and a thread
\* can be preempted between any two of its reads and writes of the
\* globals.  tpc[t] is the line of main.py thread t executes next.

Goto(t, line) == tpc' = [tpc EXCEPT ![t] = line]

\* Where load_models returns to.
AfterLoad(t) ==
    IF ret[t] = "health" THEN "done"
    ELSE IF ret[t] = "detect_objects" THEN "L81"
    ELSE "L103"

\* GET /health: load_models()   (line 161)
StartHealth(t) ==
    /\ tpc[t] = "idle"
    /\ Goto(t, "L40")
    /\ ret' = [ret EXCEPT ![t] = "health"]
    /\ UNCHANGED <<gvars, rvars, crops, loads>>

\* POST /classify, up to detect_objects: load_models()   (lines 180-184, 74)
StartClassify(t) ==
    /\ tpc[t] = "idle"
    /\ Goto(t, "L40")
    /\ ret' = [ret EXCEPT ![t] = "detect_objects"]
    /\ UNCHANGED <<gvars, rvars, crops, loads>>

\* if _detector is None:
L40(t) ==
    /\ tpc[t] = "L40"
    /\ Goto(t, IF _detector = Null THEN "L43" ELSE "L49")
    /\ UNCHANGED <<gvars, rvars, ret, crops, loads>>

\* _detector = fasterrcnn_resnet50_fpn(weights=dweights), or the constructor raises
L43(t) ==
    /\ tpc[t] = "L43"
    /\ \/ /\ Goto(t, "L46")
          /\ UNCHANGED <<_detector, detObjs, loads>>
       \/ /\ _detector' = t
          /\ detObjs' = [detObjs EXCEPT ![t] = NewObj]
          /\ loads' = [loads EXCEPT !.det = @ + 1]
          /\ Goto(t, "L44")
    /\ UNCHANGED <<_effnet, _effnet_transform, _effnet_labels, effObjs, rvars, ret, crops>>

\* _detector.labels = dweights.meta.get("categories", [])
L44(t) ==
    /\ tpc[t] = "L44"
    /\ detObjs' = [detObjs EXCEPT ![_detector].labels = "categories"]
    /\ Goto(t, "L48")
    /\ UNCHANGED <<_detector, _effnet, _effnet_transform, _effnet_labels, effObjs, rvars, ret, crops, loads>>

\* _detector = fasterrcnn_resnet50_fpn(weights=None)
L46(t) ==
    /\ tpc[t] = "L46"
    /\ _detector' = t
    /\ detObjs' = [detObjs EXCEPT ![t] = NewObj]
    /\ loads' = [loads EXCEPT !.det = @ + 1]
    /\ Goto(t, "L47")
    /\ UNCHANGED <<_effnet, _effnet_transform, _effnet_labels, effObjs, rvars, ret, crops>>

\* _detector.labels = []
L47(t) ==
    /\ tpc[t] = "L47"
    /\ detObjs' = [detObjs EXCEPT ![_detector].labels = "empty"]
    /\ Goto(t, "L48")
    /\ UNCHANGED <<_detector, _effnet, _effnet_transform, _effnet_labels, effObjs, rvars, ret, crops, loads>>

\* _detector.eval()
L48(t) ==
    /\ tpc[t] = "L48"
    /\ detObjs' = [detObjs EXCEPT ![_detector].training = FALSE]
    /\ Goto(t, "L49")
    /\ UNCHANGED <<_detector, _effnet, _effnet_transform, _effnet_labels, effObjs, rvars, ret, crops, loads>>

\* if _effnet is None:   (else load_models returns)
L49(t) ==
    /\ tpc[t] = "L49"
    /\ Goto(t, IF _effnet = Null THEN "L52" ELSE AfterLoad(t))
    /\ UNCHANGED <<gvars, rvars, ret, crops, loads>>

\* _effnet = efficientnet_b3(weights=weights), or the constructor raises
L52(t) ==
    /\ tpc[t] = "L52"
    /\ \/ /\ Goto(t, "L56")
          /\ UNCHANGED <<_effnet, effObjs, loads>>
       \/ /\ _effnet' = t
          /\ effObjs' = [effObjs EXCEPT ![t] = [training |-> TRUE]]
          /\ loads' = [loads EXCEPT !.eff = @ + 1]
          /\ Goto(t, "L53")
    /\ UNCHANGED <<_detector, detObjs, _effnet_transform, _effnet_labels, rvars, ret, crops>>

\* _effnet_transform = weights.transforms()
L53(t) ==
    /\ tpc[t] = "L53"
    /\ _effnet_transform' = "weights"
    /\ Goto(t, "L54")
    /\ UNCHANGED <<_detector, detObjs, _effnet, effObjs, _effnet_labels, rvars, ret, crops, loads>>

\* _effnet_labels = weights.meta.get("categories", [])
L54(t) ==
    /\ tpc[t] = "L54"
    /\ _effnet_labels' = "categories"
    /\ Goto(t, "L64")
    /\ UNCHANGED <<_detector, detObjs, _effnet, effObjs, _effnet_transform, rvars, ret, crops, loads>>

\* _effnet = efficientnet_b3(weights=None)
L56(t) ==
    /\ tpc[t] = "L56"
    /\ _effnet' = t
    /\ effObjs' = [effObjs EXCEPT ![t] = [training |-> TRUE]]
    /\ loads' = [loads EXCEPT !.eff = @ + 1]
    /\ Goto(t, "L57")
    /\ UNCHANGED <<_detector, detObjs, _effnet_transform, _effnet_labels, rvars, ret, crops>>

\* _effnet_transform = transforms.Compose([...])
L57(t) ==
    /\ tpc[t] = "L57"
    /\ _effnet_transform' = "compose"
    /\ Goto(t, "L63")
    /\ UNCHANGED <<_detector, detObjs, _effnet, effObjs, _effnet_labels, rvars, ret, crops, loads>>

\* _effnet_labels = []
L63(t) ==
    /\ tpc[t] = "L63"
    /\ _effnet_labels' = "empty"
    /\ Goto(t, "L64")
    /\ UNCHANGED <<_detector, detObjs, _effnet, effObjs, _effnet_transform, rvars, ret, crops, loads>>

\* _effnet.eval(), and load_models returns
L64(t) ==
    /\ tpc[t] = "L64"
    /\ effObjs' = [effObjs EXCEPT ![_effnet].training = FALSE]
    /\ Goto(t, AfterLoad(t))
    /\ UNCHANGED <<_detector, detObjs, _effnet, _effnet_transform, _effnet_labels, rvars, ret, crops, loads>>

\* outputs = _detector([tensor])[0] and the labels read at line 91; a
\* detector still in training mode raises for want of targets.  Then the
\* first classify_crop(region): load_models()   (lines 206, 101)
L81(t) ==
    /\ tpc[t] = "L81"
    /\ IF detObjs[_detector].training
       THEN Goto(t, "error") /\ UNCHANGED <<ret, crops>>
       ELSE /\ Goto(t, "L40")
            /\ ret' = [ret EXCEPT ![t] = "classify_crop"]
            /\ crops' = [crops EXCEPT ![t] = @ + 1]
    /\ UNCHANGED <<gvars, rvars, loads>>

\* tensor = _effnet_transform(image).unsqueeze(0) ... through line 120: calling
\* None raises TypeError.  Then the next region's classify_crop, or the report.
L103(t) ==
    /\ tpc[t] = "L103"
    /\ IF _effnet_transform = None
       THEN Goto(t, "error") /\ UNCHANGED crops
       ELSE \/ /\ crops[t] < MaxCrops
               /\ Goto(t, "L40")
               /\ crops' = [crops EXCEPT ![t] = @ + 1]
            \/ /\ Goto(t, "done")
               /\ UNCHANGED crops
    /\ UNCHANGED <<gvars, rvars, ret, loads>>

\* Concurrent requests in a fresh process.
InitLoad ==
    /\ InitModels /\ InitThreads
    /\ inputs = InOverrides
    /\ imageDomain = None
    /\ InitRequest("off")

NextLoad ==
    \E t \in Threads :
        \/ StartHealth(t) \/ StartClassify(t)
        \/ L40(t) \/ L43(t) \/ L44(t) \/ L46(t) \/ L47(t) \/ L48(t) \/ L49(t)
        \/ L52(t) \/ L53(t) \/ L54(t) \/ L56(t) \/ L57(t) \/ L63(t) \/ L64(t)
        \/ L81(t) \/ L103(t)

SpecLoad == InitLoad /\ [][NextLoad]_vars

\* ================================================================ claims

Succeeded == pc = "done" /\ response.success
Failed == pc = "done" /\ ~response.success
Report_ == response.data.classification
DiseaseTemplate == "This plant shows signs of {label}"
FallbackTemplate == "Detected subject classified as {label} with {pct}% confidence."

\* C1: under any interleaving of concurrent requests, starting with no model
\* loaded, the detector is constructed and assigned at most once and the
\* classifier is constructed and assigned at most once.
C1_LoadedAtMostOnce == loads.det <= 1 /\ loads.eff <= 1

\* C2: a request whose load_models call has returned observes a completed
\* initialization: where detect_objects reads the detector it is non-null,
\* has its labels and is in eval mode; where classify_crop reads the
\* classifier it is non-null and the transform and the label list are set.
C2_ObservesCompletedInit ==
    \A t \in Threads :
        /\ tpc[t] = "L81" =>
              /\ _detector # Null
              /\ detObjs[_detector].labels # "unset"
              /\ ~detObjs[_detector].training
        /\ tpc[t] = "L103" =>
              /\ _effnet # Null
              /\ _effnet_transform # None
              /\ _effnet_labels # None

\* C3 (as stated): in every successful report severity is present iff the
\* resolved domain is plant, and affectedArea is present iff the resolved
\* domain is plant, for every image size.
C3_PresentIffPlant ==
    Succeeded =>
        /\ Report_.severity # None <=> domain = "plant"
        /\ Report_.affectedArea # NoInt <=> domain = "plant"

\* C3 (amended): in every successful report severity is present iff the
\* resolved domain is plant, and affectedArea is present iff the resolved
\* domain is plant and the image has a positive area (width * height > 0).
C3_PresentIffPlantAndArea ==
    Succeeded =>
        /\ Report_.severity # None <=> domain = "plant"
        /\ Report_.affectedArea # NoInt <=> (domain = "plant" /\ width * height > 0)

\* A plant report of an image of positive area: both fields are present.
C3_Witness ==
    /\ Succeeded /\ domain = "plant" /\ width * height > 0
    /\ Report_.severity # None /\ Report_.affectedArea # NoInt

\* C4: every region box emitted by the region loop satisfies
\* 0 <= x1 <= x2 <= width and 0 <= y1 <= y2 <= height.
C4_RegionBoxWithinImage ==
    \A i \in 1..Len(boxes_for_regions) :
        LET b == boxes_for_regions[i]
        IN  /\ 0 <= b[1] /\ b[1] <= b[3] /\ b[3] <= width
            /\ 0 <= b[2] /\ b[2] <= b[4] /\ b[4] <= height

\* The collaborator calls a request has made are detect_objects once and
\* then classify_crop on regions 0, 1, 2, ... each once.
CallsInOrder ==
    \A k \in 1..Len(calls) :
        calls[k] = IF k = 1 THEN [fn |-> "detect_objects", arg |-> 0]
                   ELSE [fn |-> "classify_crop", arg |-> k - 2]

\* The part of C5 about a failing step: the response is a failure with a
\* message and a detail and no data, the failing call is the last call made,
\* it was made once, and a decoding failure comes before any call.
C5_FailureAborts ==
    /\ CallsInOrder
    /\ Failed =>
          /\ DOMAIN response = {"status_code", "success", "message", "detail"}
          /\ response.detail = "cannot identify image file" => calls = <<>>
          /\ response.detail = "detector error" => Len(calls) = 1
          /\ response.detail = "classifier error" =>
                Len(calls) >= 2 /\ Len(classified_regions) = Len(calls) - 2

\* C5: a classify request is all or nothing: if decoding, the detect call or
\* a classify call fails, the request ends with a failure response without
\* report data, the step is not retried and no later collaborator call is
\* made; otherwise the request ends with a success response carrying the
\* complete report.
C5_AllOrNothing ==
    /\ C5_FailureAborts
    /\ pc = "done" =>
          \/ /\ Failed
             /\ response.detail \in {"cannot identify image file", "detector error", "classifier error"}
          \/ /\ Succeeded
             /\ "data" \in DOMAIN response
             /\ Len(response.data.regions) = Len(regions)

\* The token sets of the six steps, as the specification lists them.
C6_AnimalLabels == {<<"c","o","w">>, <<"s","h","e","e","p">>, <<"h","o","r","s","e">>, <<"d","o","g">>, <<"c","a","t">>, <<"b","i","r","d">>, <<"z","e","b","r","a">>, <<"g","i","r","a","f","f","e">>, <<"b","e","a","r">>}
C6_PlantLabels == {<<"p","o","t","t","e","d"," ","p","l","a","n","t">>, <<"p","l","a","n","t">>}
C6_FishTokens == {<<"s","h","a","r","k">>, <<"r","a","y">>, <<"t","e","n","c","h">>, <<"g","o","l","d","f","i","s","h">>, <<"s","a","l","m","o","n">>, <<"t","r","o","u","t">>, <<"t","i","l","a","p","i","a">>, <<"c","o","d">>, <<"m","a","c","k","e","r","e","l">>}
C6_PlantTokens == {<<"l","e","a","f">>, <<"p","l","a","n","t">>, <<"t","o","m","a","t","o">>, <<"p","o","t","a","t","o">>, <<"m","a","i","z","e">>, <<"c","o","r","n">>, <<"w","h","e","a","t">>, <<"r","i","c","e">>}
C6_LivestockTokens == {<<"c","o","w">>, <<"s","h","e","e","p">>, <<"h","o","r","s","e">>, <<"c","a","t">>, <<"d","o","g">>, <<"t","i","g","e","r">>, <<"l","i","o","n">>}

C6_HasToken(label, toks) ==
    \E tok \in toks : \E i \in 1..Len(label) :
        i + Len(tok) - 1 <= Len(label) /\ \A j \in 1..Len(tok) : Lower(label)[i + j - 1] = tok[j]

C6_SomeDetectionIn(toks) == \E i \in 1..Len(detections) : Lower(detections[i].label) \in toks

\* C6: without an override the resolved domain follows the six steps, first
\* match wins: a detection label (lower-cased) that is an animal name gives
\* livestock; else one that is 'potted plant' or 'plant' gives plant; else a
\* primary label (lower-cased) containing a fish token gives fish; else one
\* containing a plant token gives plant; else one containing a livestock
\* token gives livestock; else plant.  The result is one of the three domains.
C6_DomainPrecedence ==
    (Succeeded /\ imageDomain \in {None, ""}) =>
        /\ domain \in {"plant", "livestock", "fish"}
        /\ domain =
             CASE C6_SomeDetectionIn(C6_AnimalLabels) -> "livestock"
               [] ~C6_SomeDetectionIn(C6_AnimalLabels) /\ C6_SomeDetectionIn(C6_PlantLabels) -> "plant"
               [] OTHER ->
                    CASE C6_HasToken(primary_label, C6_FishTokens) -> "fish"
                      [] ~C6_HasToken(primary_label, C6_FishTokens)
                         /\ C6_HasToken(primary_label, C6_PlantTokens) -> "plant"
                      [] ~C6_HasToken(primary_label, C6_FishTokens)
                         /\ ~C6_HasToken(primary_label, C6_PlantTokens)
                         /\ C6_HasToken(primary_label, C6_LivestockTokens) -> "livestock"
                      [] OTHER -> "plant"

\* A detection labelled cow with a primary label containing leaf: livestock.
C6_Witness ==
    /\ Succeeded /\ imageDomain = None
    /\ \E i \in 1..Len(detections) : detections[i].label = <<"c","o","w">>
    /\ C6_HasToken(primary_label, {<<"l","e","a","f">>})
    /\ domain = "livestock"

\* C7: once the classification loop has processed all regions, best_idx is
\* the smallest index whose confidence is the maximum over all regions, and
\* the primary label and the reported confidence are those of that region.
C7_BestIsFirstMaximum ==
    /\ pc = "report" \/ Succeeded =>
          /\ best_idx \in 0..(Len(classified_regions) - 1)
          /\ \A j \in 1..Len(classified_regions) :
                /\ classified_regions[j].confidence <= classified_regions[best_idx + 1].confidence
                /\ j < best_idx + 1 =>
                      classified_regions[j].confidence < classified_regions[best_idx + 1].confidence
          /\ best_conf = classified_regions[best_idx + 1].confidence
    /\ Succeeded =>
          /\ primary_label = response.data.regions[best_idx + 1].label
          /\ Report_.confidence = Pct(response.data.regions[best_idx + 1].confidence)

\* Confidences [0.3, 0.9, 0.9]: index 1 is selected.
C7_Witness ==
    /\ Succeeded
    /\ Len(classified_regions) = 3
    /\ [i \in 1..3 |-> classified_regions[i].confidence] = <<300, 900, 900>>
    /\ best_idx = 1
    /\ Report_.confidence = 90

\* C8: in every successful report regions is not empty: with no detection
\* it has one entry whose box is (0, 0, width, height); with n >= 1
\* detections it has n entries, entry i derived from detection i, and the
\* classifier was called exactly once per region, in that order.
C8_RegionsPerDetection ==
    Succeeded =>
        LET rs == response.data.regions
            ds == response.data.detections
        IN  /\ Len(rs) >= 1
            /\ ds = <<>> => Len(rs) = 1 /\ rs[1].box = <<0, 0, width, height>>
            /\ ds # <<>> =>
                  /\ Len(rs) = Len(ds)
                  /\ \A i \in 1..Len(ds) :
                        rs[i].box = << Max(0, IntOfHalves(ds[i].box[1])), Max(0, IntOfHalves(ds[i].box[2])),
                                       Min(width, IntOfHalves(ds[i].box[3])),
                                       Min(height, IntOfHalves(ds[i].box[4])) >>
            /\ Len(calls) = Len(rs) + 1
            /\ \A i \in 1..Len(rs) : calls[i + 1] = [fn |-> "classify_crop", arg |-> i - 1]

\* No detection, one region: the whole image.
C8_Witness ==
    /\ Succeeded /\ detections = <<>> /\ width > 0 /\ height > 0 /\ width # height
    /\ Len(response.data.regions) = 1
    /\ response.data.regions[1].box = <<0, 0, width, height>>

\* C9: for the plant domain the narrative uses the 'This plant shows signs
\* of {label}' template exactly when the lower-cased primary label contains
\* one of blight, mildew, rust, fungus, spot, mold; so in every successful
\* plant report it uses that template iff diseaseDetected is true.
C9_DiseaseTemplateIffDetected ==
    (Succeeded /\ domain = "plant") =>
        /\ response.data.report.template = DiseaseTemplate
             <=> C6_HasToken(primary_label, {<<"b","l","i","g","h","t">>, <<"m","i","l","d","e","w">>, <<"r","u","s","t">>, <<"f","u","n","g","u","s">>, <<"s","p","o","t">>, <<"m","o","l","d">>})
        /\ response.data.report.template = DiseaseTemplate <=> Report_.diseaseDetected

\* C10 (as stated): in every successful report, whatever the override, the
\* resolved domain is one of plant, livestock, fish, the fallback narrative
\* is not produced and the recommendations are not empty.
C10_DomainIsClosed ==
    Succeeded =>
        /\ domain \in {"plant", "livestock", "fish"}
        /\ response.data.report.template # FallbackTemplate
        /\ Report_.recommendations # <<>>

\* C10 (amended): in every successful report whose override is absent,
\* empty or one of plant, livestock, fish, the resolved domain is one of
\* plant, livestock, fish, the fallback narrative is not produced and the
\* recommendations are not empty.
C10_DomainIsClosedForKnownOverride ==
    (Succeeded /\ imageDomain \in {None, "", "plant", "livestock", "fish"}) =>
        /\ domain \in {"plant", "livestock", "fish"}
        /\ response.data.report.template # FallbackTemplate
        /\ Report_.recommendations # <<>>

\* An override of fish over a detection and a label that say otherwise.
C10_Witness ==
    /\ Succeeded /\ imageDomain = "fish" /\ domain = "fish"
    /\ estimate_domain(detections, primary_label) # "fish"
    /\ response.data.report.template = "This appears to be a {label}"
    /\ Len(Report_.recommendations) = 2

====
